---- MODULE Spec2Model ----
(***************************************************************************)
(* Model of the registration core of the IRC server in package irc:        *)
(*   - the State Registry (state.go: stateImpl and its operations),        *)
(*   - the Fresh / FreshUser connection handlers (handler_fresh.go) that   *)
(*     share the Registry through the single-slot channel `chan state`,    *)
(*   - the message codec (message.go: toString, laxTrailing).              *)
(*                                                                         *)
(* Go strings are modelled as sequences of one-character strings, so that  *)
(* len(), indexing, lowercase() and concatenation are computed and not     *)
(* assumed.  Go pointers to user and channel are indices into the heaps    *)
(* s.uobj and s.cobj; Nil is the nil pointer.  A heap object stays         *)
(* allocated after the directory drops it, as it does in Go while a caller *)
(* still holds the pointer.                                                *)
(***************************************************************************)
EXTENDS Integers, Sequences, FiniteSets, TLC

\* ------------------------------------------------------------------------
\* Bounds of the model
\* ------------------------------------------------------------------------
NumConns == 2
MaxUserObjs == 2
MaxChanObjs == 2

\* ------------------------------------------------------------------------
\* Strings
\* ------------------------------------------------------------------------
Nil == 0

UpperChars == <<"A","B","C","D","E","F","G","H","I","J","K","L","M",
                "N","O","P","Q","R","S","T","U","V","W","X","Y","Z">>
LowerChars == <<"a","b","c","d","e","f","g","h","i","j","k","l","m",
                "n","o","p","q","r","s","t","u","v","w","x","y","z">>

\* the characters that occur in the strings of the model
OtherChars == {"#", "&", " ", ":", "*", "0", ".", "CR", "LF"}

Chars == {UpperChars[i] : i \in 1..Len(UpperChars)}
           \cup {LowerChars[i] : i \in 1..Len(LowerChars)} \cup OtherChars

\* one character to lower case; everything that is not A..Z maps to itself
LowerOf ==
  [ch \in Chars |->
     IF \E i \in 1..Len(UpperChars) : UpperChars[i] = ch
     THEN LowerChars[CHOOSE i \in 1..Len(UpperChars) : UpperChars[i] = ch]
     ELSE ch]

lowerChar(ch) == LowerOf[ch]

lowercase(str) == [i \in 1..Len(str) |-> lowerChar(str[i])]

\* strings.Contains(param, " ")
ContainsSpace(str) == \E i \in 1..Len(str) : str[i] = " "

\* nicknames the connections and the registry callers use
NickBob == <<"b","o","b">>
NickBobMixed == <<"B","o","b">>
NickBobUpper == <<"B","O","B">>
NickAl == <<"A","l">>
NickNine == <<"a","b","c","d","e","f","g","h","I">>
NickTen == <<"a","b","c","d","e","f","g","h","i","J">>
NickEmpty == <<>>

\* channel names the registry callers use
ChanHashA == <<"#","a">>
ChanHashAUpper == <<"#","A">>
ChanAmpB == <<"&","b">>
ChanNoPrefix == <<"a","#">>
ChanEmpty == <<>>

\* ------------------------------------------------------------------------
\* Messages (message.go)
\* ------------------------------------------------------------------------
Message(prefix, command, params, trailing) ==
  [prefix |-> prefix, command |-> command, params |-> params, trailing |-> trailing]

\* laxTrailing that takes the last parameter at the minimum index already
laxTrailingAtMinIndex(m, minIndex) ==
  IF m.trailing # <<>> THEN m.trailing
  ELSE LET l == Len(m.params) IN
       IF l < minIndex THEN <<>> ELSE m.params[l]

\* laxTrailing returns the trailing portion of a message or the last parameter
laxTrailing(m, minIndex) ==
  IF m.trailing # <<>> THEN m.trailing
  ELSE LET l == Len(m.params) IN
       IF l <= minIndex THEN <<>> ELSE m.params[l]

\* toString that does not refuse a space inside a middle parameter
RECURSIVE toStringParamsNoCheck(_, _, _)
toStringParamsNoCheck(m, i, text) ==
  IF i > Len(m.params) THEN [text |-> text, ok |-> TRUE]
  ELSE toStringParamsNoCheck(m, i + 1, text \o <<" ">> \o m.params[i])

\* the loop of toString over m.params, from index i on, with the text so far
RECURSIVE toStringParams(_, _, _)
toStringParams(m, i, text) ==
  IF i > Len(m.params) THEN [text |-> text, ok |-> TRUE]
  ELSE IF ContainsSpace(m.params[i]) THEN [text |-> <<>>, ok |-> FALSE]
  ELSE toStringParams(m, i + 1, text \o <<" ">> \o m.params[i])

\* toString serializes a message; [text, ok]
toString(m) ==
  IF m.command = <<>> THEN [text |-> <<>>, ok |-> FALSE]
  ELSE LET msg0 == IF Len(m.prefix) > 0 THEN <<":">> \o m.prefix \o <<" ">> ELSE <<>>
           msg1 == msg0 \o m.command
           loop == toStringParams(m, 1, msg1) IN
       IF ~loop.ok THEN [text |-> <<>>, ok |-> FALSE]
       ELSE LET msg2 == IF m.trailing # <<>>
                        THEN loop.text \o <<" ", ":">> \o m.trailing
                        ELSE loop.text IN
            [text |-> msg2 \o <<"CR", "LF">>, ok |-> TRUE]

\* the commands the Fresh and FreshUser handlers look for
cmdQuit == <<"Q","U","I","T">>
cmdNick == <<"N","I","C","K">>
cmdUser == <<"U","S","E","R">>
cmdPing == <<"P","I","N","G">>

\* ------------------------------------------------------------------------
\* The State Registry (state.go)
\*
\* A registry value s is a record
\*   users    : map lowercase nick -> *user      (stateImpl.users)
\*   channels : map lowercase name -> *channel   (stateImpl.channels)
\*   uobj     : heap of user structs    [nick, channels, sink, user]
\*   cobj     : heap of channel structs [name, users]
\* ------------------------------------------------------------------------
EmptyMap == [k \in {} |-> Nil]

MapPut(m, key, v) == [k \in (DOMAIN m) \cup {key} |-> IF k = key THEN v ELSE m[k]]

MapDelete(m, key) == [k \in (DOMAIN m) \ {key} |-> m[k]]

MapGet(m, key) == IF key \in DOMAIN m THEN m[key] ELSE Nil

newState == [users |-> EmptyMap, channels |-> EmptyMap, uobj |-> <<>>, cobj |-> <<>>]

MaxNickLen == 9

isValidNick(nick) == Len(nick) <= MaxNickLen

getChannel(s, name) == MapGet(s.channels, lowercase(name))

getUser(s, nick) == MapGet(s.users, lowercase(nick))

\* newUser with the directory keyed by the nickname as given
newUserCaseSensitive(s, nick) ==
  IF MapGet(s.users, nick) # Nil THEN [s |-> s, res |-> Nil]
  ELSE IF ~isValidNick(nick) THEN [s |-> s, res |-> Nil]
  ELSE LET u == Len(s.uobj) + 1 IN
       [s |-> [s EXCEPT !.uobj = Append(@, [nick |-> nick, channels |-> {},
                                            sink |-> Nil, user |-> <<>>]),
                        !.users = MapPut(@, nick, u)],
        res |-> u]

\* newUser returns [s |-> the registry afterwards, res |-> the *user or Nil]
newUser(s, nick) ==
  LET nickLower == lowercase(nick) IN
  IF MapGet(s.users, nickLower) # Nil THEN [s |-> s, res |-> Nil]
  ELSE IF ~isValidNick(nickLower) THEN [s |-> s, res |-> Nil]
  ELSE LET u == Len(s.uobj) + 1 IN
       [s |-> [s EXCEPT !.uobj = Append(@, [nick |-> nick, channels |-> {},
                                            sink |-> Nil, user |-> <<>>]),
                        !.users = MapPut(@, nickLower, u)],
        res |-> u]

\* newChannel returns [s, res, panic]: name[0] on an empty name is an index
\* out of range, a run-time panic
newChannel(s, name0) ==
  LET name == lowercase(name0) IN
  IF MapGet(s.channels, name) # Nil THEN [s |-> s, res |-> Nil, panic |-> FALSE]
  ELSE IF Len(name) = 0 THEN [s |-> s, res |-> Nil, panic |-> TRUE]
  ELSE IF name[1] # "#" /\ name[1] # "&" THEN [s |-> s, res |-> Nil, panic |-> FALSE]
  ELSE LET ch == Len(s.cobj) + 1 IN
       [s |-> [s EXCEPT !.cobj = Append(@, [name |-> name, users |-> {}]),
                        !.channels = MapPut(@, name, ch)],
        res |-> ch, panic |-> FALSE]

\* recycleChannel with the emptiness test inverted
recycleChannelInverted(s, channel) ==
  IF channel = Nil \/ Cardinality(s.cobj[channel].users) = 0 THEN s
  ELSE [s EXCEPT !.channels = MapDelete(@, s.cobj[channel].name)]

recycleChannel(s, channel) ==
  IF channel = Nil \/ Cardinality(s.cobj[channel].users) # 0 THEN s
  ELSE [s EXCEPT !.channels = MapDelete(@, s.cobj[channel].name)]

\* joinChannel that updates the channel's member set only
joinChannelOneSided(s, channel, user) ==
  IF user \in s.cobj[channel].users THEN s
  ELSE [s EXCEPT !.cobj[channel].users = @ \cup {user}]

\* joinChannel that drops the link when it is already there
joinChannelToggle(s, channel, user) ==
  IF user \in s.cobj[channel].users
  THEN [s EXCEPT !.cobj[channel].users = @ \ {user},
                 !.uobj[user].channels = @ \ {channel}]
  ELSE [s EXCEPT !.cobj[channel].users = @ \cup {user},
                 !.uobj[user].channels = @ \cup {channel}]

joinChannel(s, channel, user) ==
  IF user \in s.cobj[channel].users THEN s
  ELSE [s EXCEPT !.cobj[channel].users = @ \cup {user},
                 !.uobj[user].channels = @ \cup {channel}]

removeFromChannel(s, channel, user) ==
  LET s1 == [s EXCEPT !.uobj[user].channels = @ \ {channel}] IN
  IF user \notin s1.cobj[channel].users THEN s1
  ELSE recycleChannel([s1 EXCEPT !.cobj[channel].users = @ \ {user}], channel)

partChannel(s, channel, user, reason) == removeFromChannel(s, channel, user)

\* user.forChannels(callback): the callback runs once for every channel of
\* the user's membership map; the callback of removeUser deletes the entry it
\* is called for, which Go allows during a range.
RECURSIVE forChannelsPart(_, _, _)
forChannelsPart(s, user, todo) ==
  IF todo = {} THEN s
  ELSE LET ch == CHOOSE c \in todo : TRUE IN
       forChannelsPart(partChannel(s, ch, user, "QUITing"), user, todo \ {ch})

\* removeUser that deletes under the nickname as stored, not its lowercase
removeUserNoLowercase(s, user) ==
  LET s1 == forChannelsPart(s, user, s.uobj[user].channels) IN
  [s1 EXCEPT !.users = MapDelete(@, s1.uobj[user].nick)]

\* removeUser that deletes the user and leaves the channels as they are
removeUserKeepsChannels(s, user) ==
  [s EXCEPT !.users = MapDelete(@, lowercase(s.uobj[user].nick))]

removeUser(s, user) ==
  LET s1 == forChannelsPart(s, user, s.uobj[user].channels)
      nickLower == lowercase(s1.uobj[user].nick) IN
  [s1 EXCEPT !.users = MapDelete(@, nickLower)]

\* ------------------------------------------------------------------------
\* State
\* ------------------------------------------------------------------------
VARIABLES
  s,        \* the stateImpl behind the `state` interface, with its heaps
  last,     \* the last Registry call of SpecRegistry / SpecUsers: operation, outcome
  slot,     \* the channel `chan state`: TRUE when it holds the Registry
  handler,  \* per connection: the current handler
  huser,    \* per connection: the user of its freshUserHandler (h.user)
  pc,       \* per connection: position inside handle() / closed()
  msg,      \* per connection: the message being handled
  ret,      \* per connection: the handler the running call is about to return
  sent,     \* per connection: numeric replies sent to it by the running call
  motd,     \* per connection: the users the welcome/MOTD sequence was sent for
  killed,   \* per connection: conn.kill() was called
  path,     \* per connection: the handlers it has had, in order
  encIn,    \* codec: the message given to toString
  encOut    \* codec: the result of toString, [text, ok]

regVars == <<s, last>>
connVars == <<slot, handler, huser, pc, msg, ret, sent, motd, killed, path>>
codecVars == <<encIn, encOut>>
vars == <<s, last, slot, handler, huser, pc, msg, ret, sent, motd, killed, path,
          encIn, encOut>>

Conns == 1..NumConns

NoMessage == [prefix |-> <<>>, command |-> <<>>, params |-> <<>>, trailing |-> <<>>]

NoCall == [op |-> "none", name |-> <<>>, ok |-> FALSE, panic |-> FALSE, emptied |-> FALSE]

\* the channel `chan state` as the server makes it: one slot, with the
\* Registry put into it before the first connection is served
newStateChan == TRUE

\* the state after newState and the creation of the connections' handlers
\* (newFreshHandler), with the Registry in the slot
Init ==
  /\ s = newState
  /\ last = NoCall
  /\ slot = newStateChan
  /\ handler = [c \in Conns |-> "Fresh"]
  /\ huser = [c \in Conns |-> Nil]
  /\ pc = [c \in Conns |-> "idle"]
  /\ msg = [c \in Conns |-> NoMessage]
  /\ ret = [c \in Conns |-> "none"]
  /\ sent = [c \in Conns |-> <<>>]
  /\ motd = [c \in Conns |-> <<>>]
  /\ killed = [c \in Conns |-> FALSE]
  /\ path = [c \in Conns |-> <<"Fresh">>]
  /\ encIn = NoMessage
  /\ encOut = [text |-> <<>>, ok |-> FALSE]

\* ------------------------------------------------------------------------
\* SpecRegistry: one holder of the Registry calling its operations in any
\* order.  The removing operations are also called with pointers the
\* directory has dropped since (a handler keeps its h.user, a caller keeps a
\* channel it looked up).  A run-time panic ends the run.
\* SpecUsers: newUser / removeUser alone, over a wider set of nicknames.
\* ------------------------------------------------------------------------
RegNicks == {NickBob, NickAl}

UserNicks == {NickBob, NickBobMixed, NickBobUpper, NickAl, NickNine, NickTen, NickEmpty}

RegChanNames == {ChanHashA, ChanHashAUpper, ChanAmpB, ChanNoPrefix, ChanEmpty}

UserPtrs == 1..Len(s.uobj)

ChanPtrs == 1..Len(s.cobj)

\* the call emptied a channel that had members
Emptied(before, after) ==
  \E ch \in 1..Len(before.cobj) :
    before.cobj[ch].users # {} /\ after.cobj[ch].users = {}

Call(op, name, after, ok, panic) ==
  [op |-> op, name |-> name, ok |-> ok, panic |-> panic,
   emptied |-> Emptied(s, after)]

NewUserCall(nick) ==
  LET r == newUser(s, nick) IN
  /\ ~last.panic
  /\ r.res = Nil \/ Len(s.uobj) < MaxUserObjs
  /\ s' = r.s
  /\ last' = Call("newUser", nick, r.s, r.res # Nil, FALSE)
  /\ UNCHANGED <<connVars, codecVars>>

NewUserOp == \E nick \in RegNicks : NewUserCall(nick)

NewUserAnyOp == \E nick \in UserNicks : NewUserCall(nick)

RemoveUserOp ==
  \E u \in UserPtrs :
    /\ ~last.panic
    /\ s' = removeUser(s, u)
    /\ last' = Call("removeUser", <<>>, s', TRUE, FALSE)
    /\ UNCHANGED <<connVars, codecVars>>

NewChannelOp ==
  \E name \in RegChanNames :
    LET r == newChannel(s, name) IN
    /\ ~last.panic
    /\ r.res = Nil \/ Len(s.cobj) < MaxChanObjs
    /\ s' = r.s
    /\ last' = Call("newChannel", name, r.s, r.res # Nil, r.panic)
    /\ UNCHANGED <<connVars, codecVars>>

RecycleChannelOp ==
  \E ch \in ChanPtrs \cup {Nil} :
    /\ ~last.panic
    /\ s' = recycleChannel(s, ch)
    /\ last' = Call("recycleChannel", <<>>, s', TRUE, FALSE)
    /\ UNCHANGED <<connVars, codecVars>>

\* callers join a user and a channel they have just looked up or created,
\* so both are in the directory
JoinChannelOp ==
  \E ch \in ChanPtrs, u \in UserPtrs :
    /\ ~last.panic
    /\ getChannel(s, s.cobj[ch].name) = ch
    /\ getUser(s, s.uobj[u].nick) = u
    /\ s' = joinChannel(s, ch, u)
    /\ last' = Call("joinChannel", <<>>, s', TRUE, FALSE)
    /\ UNCHANGED <<connVars, codecVars>>

PartChannelOp ==
  \E ch \in ChanPtrs, u \in UserPtrs :
    /\ ~last.panic
    /\ s' = partChannel(s, ch, u, "bye")
    /\ last' = Call("partChannel", <<>>, s', TRUE, FALSE)
    /\ UNCHANGED <<connVars, codecVars>>

RemoveFromChannelOp ==
  \E ch \in ChanPtrs, u \in UserPtrs :
    /\ ~last.panic
    /\ s' = removeFromChannel(s, ch, u)
    /\ last' = Call("removeFromChannel", <<>>, s', TRUE, FALSE)
    /\ UNCHANGED <<connVars, codecVars>>

NextRegistry ==
  \/ NewUserOp
  \/ RemoveUserOp
  \/ NewChannelOp
  \/ RecycleChannelOp
  \/ JoinChannelOp
  \/ PartChannelOp
  \/ RemoveFromChannelOp

SpecRegistry == Init /\ [][NextRegistry]_vars

NextUsers ==
  \/ NewUserAnyOp
  \/ RemoveUserOp

SpecUsers == Init /\ [][NextUsers]_vars

\* ------------------------------------------------------------------------
\* Spec: the connections (handler_fresh.go).  Every connection runs its own
\* loop: it hands each message to handle() of its current handler and makes
\* the returned handler the current one; when the transport fails it calls
\* closed() and ends.  The steps of a call are the code's statements in the
\* code's order; pc is the statement the connection is at.
\* ------------------------------------------------------------------------
ConnNicks == {NickBob, NickBobMixed, NickAl, NickTen}

TokAl == <<"a","l">>
TokZero == <<"0">>
TokStar == <<"*">>
RealName == <<"A","l"," ","A">>

NickMessages ==
  {Message(<<>>, cmdNick, <<>>, <<>>)}
    \cup {Message(<<>>, cmdNick, <<n>>, <<>>) : n \in ConnNicks}

UserMessages ==
  { Message(<<>>, cmdUser, <<TokAl, TokZero>>, RealName),
    Message(<<>>, cmdUser, <<TokAl, TokZero, TokStar>>, <<>>),
    Message(<<>>, cmdUser, <<TokAl, TokZero, TokStar>>, RealName),
    Message(<<>>, cmdUser, <<TokAl, TokZero, TokStar, TokAl>>, <<>>) }

QuitMessage == Message(<<>>, cmdQuit, <<>>, <<>>)

PingMessage == Message(<<>>, cmdPing, <<>>, <<>>)

ConnMessages == NickMessages \cup UserMessages \cup {QuitMessage, PingMessage}

\* a receive that does not wait for the slot to hold the Registry
acquireNoWait(c, next) ==
  /\ slot' = FALSE
  /\ pc' = [pc EXCEPT ![c] = next]

\* state := <-h.state : the receive waits until the slot holds the Registry
acquire(c, next) ==
  /\ slot
  /\ slot' = FALSE
  /\ pc' = [pc EXCEPT ![c] = next]

\* a return that leaves the Registry with the handler
releaseDropped == UNCHANGED slot

\* h.state <- state : the send puts the Registry back; it waits while the slot
\* is full
release == ~slot /\ slot' = TRUE

\* the call returns handler `next` to the connection's loop
Return(c, next) ==
  /\ handler' = [handler EXCEPT ![c] = next]
  /\ path' = [path EXCEPT ![c] = IF next = handler[c] THEN @ ELSE Append(@, next)]
  /\ pc' = [pc EXCEPT ![c] = "idle"]
  /\ msg' = [msg EXCEPT ![c] = NoMessage]
  /\ ret' = [ret EXCEPT ![c] = "none"]
  /\ sent' = [sent EXCEPT ![c] = <<>>]

\* sendNumeric(state, conn, numeric)
sendNumeric(c, numeric) == sent' = [sent EXCEPT ![c] = Append(@, numeric)]

\* ---- freshHandler ----
\* handle, QUIT: conn.kill(); return nullHandler{}
FreshQuit(c) ==
  /\ handler[c] = "Fresh" /\ pc[c] = "idle"
  /\ killed' = [killed EXCEPT ![c] = TRUE]
  /\ Return(c, "Closed")
  /\ UNCHANGED <<regVars, slot, huser, motd, codecVars>>

\* handle, a command that is neither QUIT nor NICK: return h
FreshIgnore(c) ==
  \E m \in ConnMessages :
    /\ handler[c] = "Fresh" /\ pc[c] = "idle"
    /\ m.command # cmdQuit /\ m.command # cmdNick
    /\ Return(c, "Fresh")
    /\ UNCHANGED <<regVars, slot, huser, motd, killed, codecVars>>

\* handle, NICK: handleNick is entered and waits for the Registry
FreshNickOf(c, messages) ==
  \E m \in messages :
    /\ handler[c] = "Fresh" /\ pc[c] = "idle"
    /\ msg' = [msg EXCEPT ![c] = m]
    /\ pc' = [pc EXCEPT ![c] = "nick_acquire"]
    /\ UNCHANGED <<regVars, slot, handler, huser, ret, sent, motd, killed, path, codecVars>>

FreshNick(c) == FreshNickOf(c, NickMessages)

NickAcquire(c) ==
  /\ pc[c] = "nick_acquire"
  /\ acquire(c, "nick_body")
  /\ UNCHANGED <<regVars, handler, huser, msg, ret, sent, motd, killed, path, codecVars>>

\* len(msg.params) < 1: sendNumeric(errorNoNicknameGiven); return h
NickNoParam(c) ==
  /\ pc[c] = "nick_body"
  /\ Len(msg[c].params) < 1
  /\ sendNumeric(c, "errorNoNicknameGiven")
  /\ ret' = [ret EXCEPT ![c] = "Fresh"]
  /\ pc' = [pc EXCEPT ![c] = "nick_return"]
  /\ UNCHANGED <<regVars, slot, handler, huser, msg, motd, killed, path, codecVars>>

\* user := state.newUser(nick); on success user.sink = conn and the handler
\* to return is a freshUserHandler holding the user
NickNewUser(c) ==
  /\ pc[c] = "nick_body"
  /\ Len(msg[c].params) >= 1
  /\ LET r == newUser(s, msg[c].params[1]) IN
     IF r.res = Nil
     THEN /\ pc' = [pc EXCEPT ![c] = "nick_inuse"]
          /\ UNCHANGED <<s, huser, ret>>
     ELSE /\ s' = [r.s EXCEPT !.uobj[r.res].sink = c]
          /\ huser' = [huser EXCEPT ![c] = r.res]
          /\ ret' = [ret EXCEPT ![c] = "FreshUser"]
          /\ pc' = [pc EXCEPT ![c] = "nick_return"]
  /\ UNCHANGED <<last, slot, handler, msg, sent, motd, killed, path, codecVars>>

\* a refused nickname that ends the connection
NickInUseFatal(c) ==
  /\ pc[c] = "nick_inuse"
  /\ sendNumeric(c, "errorNicknameInUse")
  /\ killed' = [killed EXCEPT ![c] = TRUE]
  /\ ret' = [ret EXCEPT ![c] = "Closed"]
  /\ pc' = [pc EXCEPT ![c] = "nick_return"]
  /\ UNCHANGED <<regVars, slot, handler, huser, msg, motd, path, codecVars>>

\* user == nil: sendNumeric(errorNicknameInUse); return h
NickInUse(c) ==
  /\ pc[c] = "nick_inuse"
  /\ sendNumeric(c, "errorNicknameInUse")
  /\ ret' = [ret EXCEPT ![c] = "Fresh"]
  /\ pc' = [pc EXCEPT ![c] = "nick_return"]
  /\ UNCHANGED <<regVars, slot, handler, huser, msg, motd, killed, path, codecVars>>

\* the deferred h.state <- state, run when handleNick returns; the message and
\* the replies of the call are not used after it
NickRelease(c) ==
  /\ pc[c] = "nick_return"
  /\ release
  /\ pc' = [pc EXCEPT ![c] = "nick_done"]
  /\ msg' = [msg EXCEPT ![c] = NoMessage]
  /\ sent' = [sent EXCEPT ![c] = <<>>]
  /\ UNCHANGED <<regVars, handler, huser, ret, motd, killed, path, codecVars>>

\* the connection's loop takes the handler that handleNick returned
NickReturn(c) ==
  /\ pc[c] = "nick_done"
  /\ Return(c, ret[c])
  /\ UNCHANGED <<regVars, slot, huser, motd, killed, codecVars>>

\* closed: c.kill()
FreshClosed(c) ==
  /\ handler[c] = "Fresh" /\ pc[c] = "idle"
  /\ killed' = [killed EXCEPT ![c] = TRUE]
  /\ Return(c, "Closed")
  /\ UNCHANGED <<regVars, slot, huser, motd, codecVars>>

\* ---- freshUserHandler ----
\* handle, QUIT: state := <-h.state
FreshUserQuit(c) ==
  /\ handler[c] = "FreshUser" /\ pc[c] = "idle"
  /\ msg' = [msg EXCEPT ![c] = QuitMessage]
  /\ pc' = [pc EXCEPT ![c] = "quit_acquire"]
  /\ UNCHANGED <<regVars, slot, handler, huser, ret, sent, motd, killed, path, codecVars>>

QuitAcquire(c) ==
  /\ pc[c] = "quit_acquire"
  /\ acquire(c, "quit_remove")
  /\ UNCHANGED <<regVars, handler, huser, msg, ret, sent, motd, killed, path, codecVars>>

\* a QUIT that leaves the user in the directory
QuitRemoveSkipped(c) ==
  /\ pc[c] = "quit_remove"
  /\ pc' = [pc EXCEPT ![c] = "quit_release"]
  /\ UNCHANGED <<regVars, slot, handler, huser, msg, ret, sent, motd, killed, path, codecVars>>

\* state.removeUser(h.user)
QuitRemove(c) ==
  /\ pc[c] = "quit_remove"
  /\ s' = removeUser(s, huser[c])
  /\ pc' = [pc EXCEPT ![c] = "quit_release"]
  /\ UNCHANGED <<last, slot, handler, huser, msg, ret, sent, motd, killed, path, codecVars>>

\* h.state <- state
QuitRelease(c) ==
  /\ pc[c] = "quit_release"
  /\ release
  /\ pc' = [pc EXCEPT ![c] = "quit_kill"]
  /\ UNCHANGED <<regVars, handler, huser, msg, ret, sent, motd, killed, path, codecVars>>

\* conn.kill(); return nullHandler{}
QuitKill(c) ==
  /\ pc[c] = "quit_kill"
  /\ killed' = [killed EXCEPT ![c] = TRUE]
  /\ Return(c, "Closed")
  /\ UNCHANGED <<regVars, slot, huser, motd, codecVars>>

\* handle, a command that is neither QUIT nor USER: return h
FreshUserIgnore(c) ==
  \E m \in ConnMessages :
    /\ handler[c] = "FreshUser" /\ pc[c] = "idle"
    /\ m.command # cmdQuit /\ m.command # cmdUser
    /\ Return(c, "FreshUser")
    /\ UNCHANGED <<regVars, slot, huser, motd, killed, codecVars>>

\* handle, USER: handleUser is entered and waits for the Registry
FreshUserUserOf(c, messages) ==
  \E m \in messages :
    /\ handler[c] = "FreshUser" /\ pc[c] = "idle"
    /\ msg' = [msg EXCEPT ![c] = m]
    /\ pc' = [pc EXCEPT ![c] = "user_acquire"]
    /\ UNCHANGED <<regVars, slot, handler, huser, ret, sent, motd, killed, path, codecVars>>

FreshUserUser(c) == FreshUserUserOf(c, UserMessages)

UserAcquire(c) ==
  /\ pc[c] = "user_acquire"
  /\ acquire(c, "user_body")
  /\ UNCHANGED <<regVars, handler, huser, msg, ret, sent, motd, killed, path, codecVars>>

\* len(msg.params) < 3 || trailing == ""
userRejected(m) == Len(m.params) < 3 \/ laxTrailing(m, 3) = <<>>

\* sendNumeric(state, h.user, errorNeedMoreParams); return h.  The numeric
\* goes to the user's sink, the connection.
UserReject(c) ==
  /\ pc[c] = "user_body"
  /\ userRejected(msg[c])
  /\ sendNumeric(s.uobj[huser[c]].sink, "errorNeedMoreParams")
  /\ ret' = [ret EXCEPT ![c] = "FreshUser"]
  /\ pc' = [pc EXCEPT ![c] = "user_return"]
  /\ UNCHANGED <<regVars, slot, handler, huser, msg, motd, killed, path, codecVars>>

\* h.user.user = msg.params[1], with the wrong index
setUserInfoWrongIndex(r, user, m) == [r EXCEPT !.uobj[user].user = m.params[2]]

\* h.user.user = msg.params[0]
setUserInfo(r, user, m) == [r EXCEPT !.uobj[user].user = m.params[1]]

UserAccept(c) ==
  /\ pc[c] = "user_body"
  /\ ~userRejected(msg[c])
  /\ s' = setUserInfo(s, huser[c], msg[c])
  /\ pc' = [pc EXCEPT ![c] = "user_motd"]
  /\ UNCHANGED <<last, slot, handler, huser, msg, ret, sent, motd, killed, path, codecVars>>

\* sendMOTD(state, h.user); return newUserHandler(h.state, h.user.nick)
UserMOTD(c) ==
  /\ pc[c] = "user_motd"
  /\ motd' = [motd EXCEPT ![s.uobj[huser[c]].sink] = Append(@, huser[c])]
  /\ ret' = [ret EXCEPT ![c] = "Registered"]
  /\ pc' = [pc EXCEPT ![c] = "user_return"]
  /\ UNCHANGED <<regVars, slot, handler, huser, msg, sent, killed, path, codecVars>>

\* the deferred h.state <- state, run when handleUser returns; the message and
\* the replies of the call are not used after it
UserRelease(c) ==
  /\ pc[c] = "user_return"
  /\ release
  /\ pc' = [pc EXCEPT ![c] = "user_done"]
  /\ msg' = [msg EXCEPT ![c] = NoMessage]
  /\ sent' = [sent EXCEPT ![c] = <<>>]
  /\ UNCHANGED <<regVars, handler, huser, ret, motd, killed, path, codecVars>>

\* the connection's loop takes the handler that handleUser returned
UserReturn(c) ==
  /\ pc[c] = "user_done"
  /\ Return(c, ret[c])
  /\ UNCHANGED <<regVars, slot, huser, motd, killed, codecVars>>

\* closed that asks for the Registry a second time while it holds it
CloseRemoveReacquire(c) ==
  /\ pc[c] = "close_remove"
  /\ s' = removeUser(s, huser[c])
  /\ pc' = [pc EXCEPT ![c] = "close_acquire"]
  /\ UNCHANGED <<last, slot, handler, huser, msg, ret, sent, motd, killed, path, codecVars>>

\* closed that kills the transport before it asks for the Registry
FreshUserClosedKillFirst(c) ==
  /\ handler[c] = "FreshUser" /\ pc[c] = "idle"
  /\ killed' = [killed EXCEPT ![c] = TRUE]
  /\ pc' = [pc EXCEPT ![c] = "close_acquire"]
  /\ UNCHANGED <<regVars, slot, handler, huser, msg, ret, sent, motd, path, codecVars>>

\* closed: state := <-h.state
FreshUserClosed(c) ==
  /\ handler[c] = "FreshUser" /\ pc[c] = "idle"
  /\ pc' = [pc EXCEPT ![c] = "close_acquire"]
  /\ UNCHANGED <<regVars, slot, handler, huser, msg, ret, sent, motd, killed, path, codecVars>>

CloseAcquire(c) ==
  /\ pc[c] = "close_acquire"
  /\ acquire(c, "close_remove")
  /\ UNCHANGED <<regVars, handler, huser, msg, ret, sent, motd, killed, path, codecVars>>

\* state.removeUser(h.user)
CloseRemove(c) ==
  /\ pc[c] = "close_remove"
  /\ s' = removeUser(s, huser[c])
  /\ pc' = [pc EXCEPT ![c] = "close_kill"]
  /\ UNCHANGED <<last, slot, handler, huser, msg, ret, sent, motd, killed, path, codecVars>>

\* c.kill()
CloseKill(c) ==
  /\ pc[c] = "close_kill"
  /\ killed' = [killed EXCEPT ![c] = TRUE]
  /\ pc' = [pc EXCEPT ![c] = "close_return"]
  /\ UNCHANGED <<regVars, slot, handler, huser, msg, ret, sent, motd, path, codecVars>>

\* the deferred h.state <- state, run when closed returns
CloseRelease(c) ==
  /\ pc[c] = "close_return"
  /\ release
  /\ pc' = [pc EXCEPT ![c] = "close_done"]
  /\ UNCHANGED <<regVars, handler, huser, msg, ret, sent, motd, killed, path, codecVars>>

\* closed has returned; the connection's loop has ended
CloseReturn(c) ==
  /\ pc[c] = "close_done"
  /\ Return(c, "Closed")
  /\ UNCHANGED <<regVars, slot, huser, motd, killed, codecVars>>

Next ==
  \E c \in Conns :
    \/ FreshQuit(c)
    \/ FreshIgnore(c)
    \/ FreshNick(c)
    \/ NickAcquire(c)
    \/ NickNoParam(c)
    \/ NickNewUser(c)
    \/ NickInUse(c)
    \/ NickRelease(c)
    \/ NickReturn(c)
    \/ FreshClosed(c)
    \/ FreshUserQuit(c)
    \/ QuitAcquire(c)
    \/ QuitRemove(c)
    \/ QuitRelease(c)
    \/ QuitKill(c)
    \/ FreshUserIgnore(c)
    \/ FreshUserUser(c)
    \/ UserAcquire(c)
    \/ UserReject(c)
    \/ UserAccept(c)
    \/ UserMOTD(c)
    \/ UserRelease(c)
    \/ UserReturn(c)
    \/ FreshUserClosed(c)
    \/ CloseAcquire(c)
    \/ CloseRemove(c)
    \/ CloseKill(c)
    \/ CloseRelease(c)
    \/ CloseReturn(c)

Spec == Init /\ [][Next]_vars

\* a step of the connection's running handle() / closed() call
CallStep(c) ==
  \/ NickAcquire(c)
  \/ NickNoParam(c)
  \/ NickNewUser(c)
  \/ NickInUse(c)
  \/ NickRelease(c)
  \/ NickReturn(c)
  \/ QuitAcquire(c)
  \/ QuitRemove(c)
  \/ QuitRelease(c)
  \/ QuitKill(c)
  \/ UserAcquire(c)
  \/ UserReject(c)
  \/ UserAccept(c)
  \/ UserMOTD(c)
  \/ UserRelease(c)
  \/ UserReturn(c)
  \/ CloseAcquire(c)
  \/ CloseRemove(c)
  \/ CloseKill(c)
  \/ CloseRelease(c)
  \/ CloseReturn(c)

\* SpecHandOff: the hand-off of the Registry among the connections.  The
\* messages are one for each way through handleNick and handleUser: a NICK
\* without parameter, a NICK with a nickname, which is free for one
\* connection and in use for the next until the first has quit, a USER that
\* is rejected and one that is accepted.
\* Every connection runs in a goroutine of its own, and a goroutine that can
\* take a step is scheduled in the end: a call that has started goes on
\* whenever it can.  A connection need not send a next message.
HandOffNickMessages ==
  {Message(<<>>, cmdNick, <<>>, <<>>), Message(<<>>, cmdNick, <<NickBob>>, <<>>)}

HandOffUserMessages ==
  { Message(<<>>, cmdUser, <<TokAl, TokZero, TokStar>>, <<>>),
    Message(<<>>, cmdUser, <<TokAl, TokZero, TokStar>>, RealName) }

NextHandOff ==
  \E c \in Conns :
    \/ FreshQuit(c)
    \/ FreshIgnore(c)
    \/ FreshNickOf(c, HandOffNickMessages)
    \/ FreshClosed(c)
    \/ FreshUserQuit(c)
    \/ FreshUserIgnore(c)
    \/ FreshUserUserOf(c, HandOffUserMessages)
    \/ FreshUserClosed(c)
    \/ CallStep(c)

SpecHandOff ==
  Init /\ [][NextHandOff]_vars /\ \A c \in Conns : WF_vars(CallStep(c))

\* ------------------------------------------------------------------------
\* SpecCodec: toString applied to every message over a bounded alphabet
\* ------------------------------------------------------------------------
MaxParams == 2

PrefixServer == <<"s","e","r","v","e","r",".","e","x","a","m","p","l","e">>
CmdPrivmsg == <<"P","R","I","V","M","S","G">>
ParamChan == <<"#","c","h","a","n">>
ParamSpaced == <<"a"," ","b">>
ParamNick == <<"b","o","b">>
TrailingHello == <<"h","e","l","l","o"," ","w","o","r","l","d">>

ParamTokens == {ParamChan, ParamSpaced, ParamNick}

ParamSeqs == UNION {[1..k -> ParamTokens] : k \in 0..MaxParams}

CodecMessages ==
  {Message(p, c, ps, tr) : p \in {<<>>, PrefixServer}, c \in {<<>>, CmdPrivmsg, cmdNick},
                           ps \in ParamSeqs, tr \in {<<>>, TrailingHello}}

Encode ==
  \E m \in CodecMessages :
    /\ encIn' = m
    /\ encOut' = toString(m)
    /\ UNCHANGED <<regVars, connVars>>

NextCodec == Encode

SpecCodec == Init /\ [][NextCodec]_vars

\* ------------------------------------------------------------------------
\* Properties of the Registry
\* ------------------------------------------------------------------------
\* the users / channels the directory holds
LiveUsers(r) == {r.users[k] : k \in DOMAIN r.users}

LiveChannels(r) == {r.channels[k] : k \in DOMAIN r.channels}

\* some user of the directory has this nickname, ignoring case
NickRegistered(r, nick) ==
  \E u \in LiveUsers(r) : lowercase(r.uobj[u].nick) = lowercase(nick)

\* some channel of the directory has this name, ignoring case
ChannelPresent(r, name) ==
  \E ch \in LiveChannels(r) : lowercase(r.cobj[ch].name) = lowercase(name)

HasChannelPrefix(name) == Len(name) > 0 /\ name[1] \in {"#", "&"}

\* C1: nickname uniqueness.  In every state reached by newUser / removeUser
\* calls: no two users of the directory have nicknames equal ignoring case,
\* every stored nickname has at most 9 characters, newUser(nick) succeeds
\* exactly when nick has at most 9 characters and no user of the directory
\* has that nickname in any case, a failing newUser leaves the registry
\* unchanged, and after a success a repeat in any case fails and changes
\* nothing.
C1_NickUniqueness ==
  /\ \A k1 \in DOMAIN s.users, k2 \in DOMAIN s.users :
       k1 # k2 =>
         /\ s.users[k1] # s.users[k2]
         /\ lowercase(s.uobj[s.users[k1]].nick) # lowercase(s.uobj[s.users[k2]].nick)
  /\ \A u \in LiveUsers(s) : Len(s.uobj[u].nick) <= 9
  /\ \A nick \in UserNicks :
       LET r == newUser(s, nick) IN
       /\ (r.res # Nil) <=> (Len(nick) <= 9 /\ ~NickRegistered(s, nick))
       /\ r.res = Nil => r.s = s
       /\ r.res # Nil =>
            /\ getUser(r.s, nick) = r.res
            /\ \A again \in UserNicks :
                 lowercase(again) = lowercase(nick) =>
                   /\ newUser(r.s, again).res = Nil
                   /\ newUser(r.s, again).s = r.s

\* a newUser that repeats a registered nickname in another case has just failed
C1_Witness ==
  /\ last.op = "newUser"
  /\ ~last.ok
  /\ Len(last.name) <= 9
  /\ getUser(s, last.name) # Nil
  /\ s.uobj[getUser(s, last.name)].nick # last.name

\* C4: membership symmetry.  For every user u and channel c ever created,
\* c is in u's membership set exactly when u is in c's member set.
C4_MembershipSymmetry ==
  \A u \in UserPtrs, ch \in ChanPtrs :
    (ch \in s.uobj[u].channels) <=> (u \in s.cobj[ch].users)

\* a user has just been removed while another channel link is in place
C4_Witness ==
  /\ last.op = "removeUser"
  /\ \E u \in UserPtrs, ch \in ChanPtrs : u \in s.cobj[ch].users
  /\ \E u \in UserPtrs : u \notin LiveUsers(s)

\* the channel name is free again: no lookup in any case finds it and
\* newChannel with it succeeds
Recycled(r, name) ==
  \A n \in RegChanNames :
    lowercase(n) = lowercase(name) =>
      /\ getChannel(r, n) = Nil
      /\ newChannel(r, n).res # Nil

\* C5: emptying invariant.  Whenever partChannel, or removeUser through it,
\* takes the last member out of a channel, the channel's name is free when
\* the operation returns: getChannel finds nothing under it in any case and
\* newChannel with it succeeds.
C5_EmptyingInvariant ==
  [][last'.op \in {"partChannel", "removeUser"} =>
       \A ch \in 1..Len(s.cobj) :
         (s.cobj[ch].users # {} /\ s'.cobj[ch].users = {}) =>
           Recycled(s', s.cobj[ch].name)]_vars

\* partChannel has just emptied a channel
C5_Witness ==
  /\ last.op = "partChannel"
  /\ last.emptied

\* C6: newChannel is a checked operation.  A call never panics; it succeeds
\* exactly when the name begins with '#' or '&' and no channel of the
\* directory has that name ignoring case; a failing call leaves the registry
\* unchanged; after a success a repeat fails.
C6_NewChannelChecked ==
  [][last'.op = "newChannel" =>
       /\ ~last'.panic
       /\ last'.ok <=> (HasChannelPrefix(last'.name) /\ ~ChannelPresent(s, last'.name))
       /\ ~last'.ok => s' = s
       /\ last'.ok => newChannel(s', last'.name).res = Nil]_vars

\* C9: joinChannel is idempotent.  For every channel and user ever created,
\* a second joinChannel(channel, user) leaves the whole registry, and so
\* every membership set, as the first left it.
C9_JoinIdempotent ==
  \A ch \in ChanPtrs, u \in UserPtrs :
    LET once == joinChannel(s, ch, u) IN
    /\ joinChannel(once, ch, u) = once
    /\ u \in once.cobj[ch].users
    /\ ch \in once.uobj[u].channels

\* joinChannel has just linked a user and a channel, so that a second call
\* with the same pair is the repeat
C9_Witness ==
  /\ last.op = "joinChannel"
  /\ \E ch \in ChanPtrs, u \in UserPtrs :
       u \in s.cobj[ch].users /\ joinChannel(s, ch, u) = s

\* C12: removeUser parts the user from every channel and deletes the user.
\* For every user ever created, after removeUser(user): the user's
\* membership set is empty, the user is in no channel's member set, every
\* channel whose only member was the user is gone from the directory and its
\* name finds nothing, every channel has its members of before without the
\* user, every other user keeps its membership set, and getUser for the
\* nickname, in any case, returns no-result.
C12_RemoveUser ==
  \A u \in UserPtrs :
    LET r == removeUser(s, u) IN
    /\ r.uobj[u].channels = {}
    /\ \A ch \in ChanPtrs :
         /\ u \notin r.cobj[ch].users
         /\ r.cobj[ch].users = s.cobj[ch].users \ {u}
         /\ s.cobj[ch].users = {u} =>
              /\ ch \notin LiveChannels(r)
              /\ getChannel(r, s.cobj[ch].name) = Nil
    /\ \A v \in UserPtrs : v # u => r.uobj[v].channels = s.uobj[v].channels
    /\ u \notin LiveUsers(r)
    /\ \A n \in UserNicks :
         lowercase(n) = lowercase(s.uobj[u].nick) => getUser(r, n) = Nil

\* removeUser has just taken a user out of a channel it was alone in, which
\* is gone, and out of a channel that keeps another member and its place in
\* the directory
C12_Witness ==
  /\ last.op = "removeUser"
  /\ last.emptied
  /\ \E ch \in ChanPtrs : s.cobj[ch].users = {} /\ ch \notin LiveChannels(s)
  /\ \E ch \in ChanPtrs : s.cobj[ch].users # {} /\ ch \in LiveChannels(s)
  /\ \E u \in UserPtrs : u \notin LiveUsers(s) /\ s.uobj[u].channels = {}

\* the link between channel and user is absent on both sides
Unlinked(r, ch, u) ==
  /\ u \notin r.cobj[ch].users
  /\ ch \notin r.uobj[u].channels

\* C17: partChannel and removeFromChannel trigger recycling.  For every
\* channel of the directory and every user ever created, a member of the
\* channel or not, after partChannel(channel, user, reason) and after
\* removeFromChannel(channel, user) the link between the two is absent on
\* both sides and, if the channel has no members left, the channel is not in
\* the directory.
C17_PartRecycles ==
  \A ch \in LiveChannels(s), u \in UserPtrs :
    LET parted == partChannel(s, ch, u, "bye")
        removed == removeFromChannel(s, ch, u) IN
    /\ Unlinked(parted, ch, u)
    /\ parted.cobj[ch].users = {} => ch \notin LiveChannels(parted)
    /\ Unlinked(removed, ch, u)
    /\ removed.cobj[ch].users = {} => ch \notin LiveChannels(removed)

\* every channel of the directory of `before` that has members in `after` is
\* in the directory of `after`, with the members it has in `after`
KeepsLiveChannels(before, after) ==
  \A ch \in LiveChannels(before) :
    after.cobj[ch].users # {} =>
      /\ ch \in LiveChannels(after)
      /\ getChannel(after, before.cobj[ch].name) = ch

\* C18: no Registry operation removes a live channel that still has
\* members.  For every channel ever created, in the directory or recycled,
\* and nil: recycleChannel(channel) changes nothing when the argument is nil
\* or has members, and otherwise takes the channel passed, and no other, out
\* of the directory.  recycleChannel, partChannel, removeFromChannel and
\* removeUser, called with any channel or user ever created, leave every
\* channel of the directory that still has members in the directory.
C18_LiveChannelsKept ==
  /\ \A ch \in ChanPtrs \cup {Nil} :
       LET r == recycleChannel(s, ch) IN
       /\ (ch = Nil \/ s.cobj[ch].users # {}) => r = s
       /\ (ch # Nil /\ s.cobj[ch].users = {}) =>
            /\ LiveChannels(r) = LiveChannels(s) \ {ch}
            /\ r.cobj = s.cobj /\ r.uobj = s.uobj /\ r.users = s.users
       /\ KeepsLiveChannels(s, r)
  /\ \A ch \in ChanPtrs, u \in UserPtrs :
       /\ KeepsLiveChannels(s, partChannel(s, ch, u, "bye"))
       /\ KeepsLiveChannels(s, removeFromChannel(s, ch, u))
  /\ \A u \in UserPtrs : KeepsLiveChannels(s, removeUser(s, u))

\* ------------------------------------------------------------------------
\* Properties of the connections
\* ------------------------------------------------------------------------
\* the connection is between its receive from the slot and its send to it
Holding(c) ==
  pc[c] \in {"nick_body", "nick_inuse", "nick_return",
             "quit_remove", "quit_release",
             "user_body", "user_motd", "user_return",
             "close_remove", "close_kill", "close_return"}

\* the connection waits in front of the receive from the slot
Waiting(c) == pc[c] \in {"nick_acquire", "quit_acquire", "user_acquire", "close_acquire"}

\* the connection's call has sent the Registry back and has not returned yet
Released(c) == pc[c] \in {"nick_done", "quit_kill", "user_done", "close_done"}

Holders == {c \in Conns : Holding(c)}

\* C2: one holder of the Registry.  At most one connection is between its
\* acquire and its release, and the slot holds the Registry exactly when no
\* connection does.
C2_SingleHolder ==
  /\ Cardinality(Holders) <= 1
  /\ slot <=> (Holders = {})

\* one connection holds the Registry while another waits for it
C2_Witness ==
  \E c \in Conns, d \in Conns : c # d /\ Holding(c) /\ Waiting(d) /\ ~slot

\* the nickname of the connection's user
NickOf(c) == s.uobj[huser[c]].nick

\* the connection's user has been taken out of the directory by its QUIT or close
TornDown(c) ==
  \/ pc[c] \in {"quit_release", "quit_kill", "close_kill", "close_return", "close_done"}
  \/ handler[c] = "Closed"

\* the connection has a reserved nickname: it is, or is about to be returned
\* as, FreshUser or Registered and has not removed its user
HasNick(c) ==
  /\ huser[c] # Nil
  /\ ~TornDown(c)

\* C3: concurrent NICK with nicknames equal ignoring case.  Whenever a NICK
\* with a valid nickname is about to return, exactly one connection has that
\* nickname (ignoring case) reserved and its user is the directory entry; the
\* returning connection moves to FreshUser exactly when it is that
\* connection, and otherwise it was sent error-nickname-in-use alone and
\* stays Fresh.  No two connections ever have nicknames reserved that are
\* equal ignoring case.
C3_NickRace ==
  /\ \A c \in Conns :
       (pc[c] = "nick_return" /\ Len(msg[c].params) >= 1
          /\ Len(msg[c].params[1]) <= 9) =>
         LET nick == msg[c].params[1]
             winners == {d \in Conns :
                           /\ HasNick(d)
                           /\ lowercase(NickOf(d)) = lowercase(nick)
                           /\ getUser(s, nick) = huser[d]} IN
         /\ Cardinality(winners) = 1
         /\ (ret[c] = "FreshUser") <=> (c \in winners)
         /\ c \notin winners =>
              /\ ret[c] = "Fresh"
              /\ handler[c] = "Fresh"
              /\ huser[c] = Nil
              /\ sent[c] = <<"errorNicknameInUse">>
  /\ \A c \in Conns, d \in Conns :
       (c # d /\ HasNick(c) /\ HasNick(d)) =>
         /\ lowercase(NickOf(c)) # lowercase(NickOf(d))
         /\ getUser(s, NickOf(c)) = huser[c]

\* a NICK has lost against a connection that reserved the same nickname in
\* another case and is FreshUser
C3_Witness ==
  \E c \in Conns, d \in Conns :
    /\ c # d
    /\ pc[c] = "nick_return" /\ ret[c] = "Fresh"
    /\ sent[c] = <<"errorNicknameInUse">>
    /\ handler[d] = "FreshUser" /\ HasNick(d)
    /\ lowercase(NickOf(d)) = lowercase(msg[c].params[1])
    /\ NickOf(d) # msg[c].params[1]

\* the user is in no channel
InNoChannel(r, u) ==
  /\ r.uobj[u].channels = {}
  /\ \A ch \in 1..Len(r.cobj) : u \notin r.cobj[ch].users

\* C7: cleanup on QUIT and on abrupt close.  Once a connection that reserved
\* a nickname has removed its user (QUIT or closed()), the user is never in
\* the directory again and is in no channel; when removeUser has returned and
\* the connection still holds the Registry, getUser finds nothing under the
\* nickname in any case and newUser with it would succeed; later a lookup of
\* the nickname finds nothing or the user of another connection.
C7_Cleanup ==
  \A c \in Conns :
    (huser[c] # Nil /\ TornDown(c)) =>
      /\ huser[c] \notin LiveUsers(s)
      /\ InNoChannel(s, huser[c])
      /\ \A n \in ConnNicks :
           lowercase(n) = lowercase(NickOf(c)) =>
             /\ getUser(s, n) # huser[c]
             /\ Holding(c) => (getUser(s, n) = Nil /\ newUser(s, n).res # Nil)
             /\ getUser(s, n) # Nil =>
                  \E d \in Conns : d # c /\ HasNick(d) /\ huser[d] = getUser(s, n)

\* a connection has quit or was closed after NICK, and another connection
\* has reserved its nickname since
C7_Witness ==
  \E c \in Conns, d \in Conns :
    /\ c # d
    /\ handler[c] = "Closed" /\ huser[c] # Nil /\ killed[c]
    /\ handler[d] = "FreshUser" /\ HasNick(d)
    /\ lowercase(NickOf(d)) = lowercase(NickOf(c))
    /\ getUser(s, NickOf(c)) = huser[d]

\* a USER message with enough parameters: three middle parameters and a real
\* name, as the trailing parameter or as a fourth middle parameter
SufficientUser(m) ==
  /\ Len(m.params) >= 3
  /\ m.trailing # <<>> \/ Len(m.params) > 3

\* C8: registration.  A connection is Registered only by way of Fresh, then
\* FreshUser, then Registered.  When a USER with sufficient parameters is
\* about to return, and ever after, the directory holds the connection's
\* user under its nickname, the user's user-info is the first parameter of
\* the USER, the handler returned is Registered and the welcome/MOTD
\* sequence was sent exactly once, for that user; it is sent to no
\* connection that is not being registered.
C8_Registration ==
  \A c \in Conns :
    /\ path[c] \in { <<"Fresh">>, <<"Fresh", "FreshUser">>,
                     <<"Fresh", "FreshUser", "Registered">>,
                     <<"Fresh", "Closed">>, <<"Fresh", "FreshUser", "Closed">> }
    /\ path[c][Len(path[c])] = handler[c]
    /\ pc[c] = "user_return" =>
         /\ (ret[c] = "Registered") <=> SufficientUser(msg[c])
         /\ ret[c] = "Registered" =>
              /\ getUser(s, NickOf(c)) = huser[c]
              /\ s.uobj[huser[c]].user = msg[c].params[1]
              /\ motd[c] = <<huser[c]>>
    /\ (pc[c] = "user_done" /\ ret[c] = "Registered") =>
         /\ getUser(s, NickOf(c)) = huser[c]
         /\ \E m \in UserMessages :
              SufficientUser(m) /\ s.uobj[huser[c]].user = m.params[1]
         /\ motd[c] = <<huser[c]>>
    /\ handler[c] = "Registered" =>
         /\ path[c] = <<"Fresh", "FreshUser", "Registered">>
         /\ huser[c] # Nil
         /\ getUser(s, NickOf(c)) = huser[c]
         /\ s.uobj[huser[c]].sink = c
         /\ \E m \in UserMessages :
              SufficientUser(m) /\ s.uobj[huser[c]].user = m.params[1]
         /\ motd[c] = <<huser[c]>>
    /\ (handler[c] # "Registered"
          /\ ~(pc[c] \in {"user_return", "user_done"} /\ ret[c] = "Registered")) =>
         motd[c] = <<>>

\* a connection is Registered
C8_Witness ==
  \E c \in Conns :
    /\ handler[c] = "Registered"
    /\ pc[c] = "idle"
    /\ motd[c] = <<huser[c]>>

\* the running call has received the Registry from the slot
Acquired(c) == Holding(c) \/ Released(c)

\* the running call returns to the connection's loop in this step
Returns(c) == pc[c] # "idle" /\ pc'[c] = "idle"

\* the steps of a call between its acquire and its return: a connection
\* begins to hold the Registry only by a receive from the full slot, stops
\* holding it only by a send into the empty slot, a send comes from exactly
\* the one holder, a call that waits for the Registry does not return before
\* it has received it, and a call that has released acquires and releases no
\* second time but returns
ReleaseOnce ==
  /\ \A c \in Conns :
       /\ (~Holding(c) /\ Holding(c)') => (Waiting(c) /\ slot /\ ~slot')
       /\ (Holding(c) /\ ~Holding(c)') => (~slot /\ slot')
       /\ Waiting(c) => (pc'[c] = pc[c] \/ Holding(c)')
       /\ Released(c) => pc'[c] \in {pc[c], "idle"}
  /\ (~slot /\ slot') =>
       Cardinality({c \in Conns : Holding(c) /\ ~Holding(c)'}) = 1

\* C11, as stated: guaranteed release.  Every handle() / closed() call that
\* acquires the Registry releases it exactly once before it returns, and at
\* the return the slot holds the Registry and the returning connection holds
\* nothing.
C11_ReleasedSlotFull ==
  [][/\ ReleaseOnce
     /\ \A c \in Conns :
          (Acquired(c) /\ Returns(c)) => (~Holding(c)' /\ slot')]_vars

\* C11, amended: guaranteed release.  Every handle() / closed() call that
\* acquires the Registry releases it exactly once before it returns; at the
\* return the returning connection holds nothing, and the Registry is in the
\* slot or with another connection that received it after the release.
C11_GuaranteedRelease ==
  [][/\ ReleaseOnce
     /\ \A c \in Conns :
          (Acquired(c) /\ Returns(c)) =>
            /\ ~Holding(c)'
            /\ slot' \/ \E d \in Conns : d # c /\ Holding(d)']_vars

\* a call has released the Registry and has not returned yet, and another
\* connection has received the Registry since
C11_Witness ==
  \E c \in Conns, d \in Conns :
    c # d /\ Released(c) /\ Holding(d) /\ ~slot

\* the connection's transport is killed in this step
Kills(c) == ~killed[c] /\ killed'[c]

\* the connection's user leaves the directory in this step
RemovesUser(c) ==
  /\ huser[c] # Nil
  /\ huser[c] \in LiveUsers(s)
  /\ huser[c] \notin LiveUsers(s')

\* C13: teardown ordering.  When the transport of a FreshUser connection is
\* killed, by its QUIT or by closed(), its user has been removed from the
\* directory before; the removal is a step of a call that holds the Registry
\* before and after it, with the transport not yet killed; a FreshUser
\* connection becomes Closed only killed and with its user removed.  The
\* transport of a Fresh connection is killed by a call that has not received
\* the Registry and does not touch it, and the call returns at once.
C13_TeardownOrdering ==
  [][\A c \in Conns :
       /\ (Kills(c) /\ handler[c] = "FreshUser") =>
            /\ huser[c] \notin LiveUsers(s)
            /\ \A n \in ConnNicks : getUser(s, n) # huser[c]
            /\ pc[c] \in {"quit_kill", "close_kill"}
            /\ s' = s
       /\ RemovesUser(c) =>
            /\ handler[c] = "FreshUser"
            /\ Holding(c) /\ Holding(c)'
            /\ ~slot /\ ~slot'
            /\ ~killed[c] /\ ~killed'[c]
       /\ (handler[c] = "FreshUser" /\ handler'[c] = "Closed") =>
            /\ killed'[c]
            /\ huser[c] \notin LiveUsers(s')
       /\ (Kills(c) /\ handler[c] = "Fresh") =>
            /\ pc[c] = "idle" /\ pc'[c] = "idle"
            /\ handler'[c] = "Closed"
            /\ huser[c] = Nil
            /\ s' = s /\ slot' = slot
       /\ Kills(c) => handler[c] \in {"Fresh", "FreshUser"}]_vars

\* one connection was torn down as FreshUser, its user removed and its
\* transport killed, and another was killed as Fresh
C13_Witness ==
  \E c \in Conns, d \in Conns :
    /\ path[c] = <<"Fresh", "FreshUser", "Closed">>
    /\ killed[c] /\ huser[c] \notin LiveUsers(s)
    /\ path[d] = <<"Fresh", "Closed">>
    /\ killed[d] /\ huser[d] = Nil

\* the connection's call uses the transport in this step: a numeric reply or
\* the welcome/MOTD sequence is sent to it, or it is killed
TransportOp(c) ==
  \/ Len(sent'[c]) > Len(sent[c])
  \/ Len(motd'[c]) > Len(motd[c])
  \/ Kills(c)

\* C14: no Registry access spans a transport operation.  No step of a
\* handle() / closed() call that sends a numeric reply or the welcome/MOTD
\* sequence to the connection, or kills its transport, is taken between the
\* call's acquire and its release.
C14_NoTransportWhileHolding ==
  [][\A c \in Conns : TransportOp(c) => ~Holding(c)]_vars

\* the nickname can be reserved: at most 9 characters and free in every case
FreeValidNick(r, nick) == Len(nick) <= 9 /\ ~NickRegistered(r, nick)

\* C15: a NICK that cannot be honoured is not fatal and permits retry.  A NICK
\* of a Fresh connection without parameter is answered by
\* error-no-nickname-given alone; one with a nickname that is in use in any
\* case or is longer than 9 characters by error-nickname-in-use alone; in
\* both cases the registry is left as it was, the call returns Fresh and the
\* connection is not killed.  Every NICK of a Fresh connection, a retry
\* included, with a free nickname of at most 9 characters reserves it, makes
\* the connection the user's sink and returns FreshUser.
C15_NickRetry ==
  [][\A c \in Conns :
       /\ (pc[c] = "nick_body" /\ pc'[c] # "nick_body") =>
            /\ handler[c] = "Fresh" /\ huser[c] = Nil /\ sent[c] = <<>>
            /\ IF Len(msg[c].params) < 1
               THEN /\ sent'[c] = <<"errorNoNicknameGiven">>
                    /\ pc'[c] = "nick_return" /\ ret'[c] = "Fresh"
                    /\ s' = s /\ huser'[c] = Nil
               ELSE LET nick == msg[c].params[1] IN
                    IF ~FreeValidNick(s, nick)
                    THEN /\ pc'[c] = "nick_inuse"
                         /\ s' = s /\ huser'[c] = Nil /\ sent'[c] = <<>>
                    ELSE /\ pc'[c] = "nick_return" /\ ret'[c] = "FreshUser"
                         /\ huser'[c] # Nil
                         /\ huser'[c] \notin LiveUsers(s)
                         /\ getUser(s', nick) = huser'[c]
                         /\ s'.uobj[huser'[c]].nick = nick
                         /\ s'.uobj[huser'[c]].sink = c
                         /\ sent'[c] = <<>>
       /\ (pc[c] = "nick_inuse" /\ pc'[c] # "nick_inuse") =>
            /\ sent'[c] = <<"errorNicknameInUse">>
            /\ pc'[c] = "nick_return" /\ ret'[c] = "Fresh"
            /\ s' = s /\ huser'[c] = Nil
       /\ (pc[c] = "nick_return" /\ pc'[c] # "nick_return") =>
            /\ pc'[c] = "nick_done" /\ ret'[c] = ret[c]
            /\ s' = s /\ huser'[c] = huser[c]
            /\ ret[c] = "Fresh" =>
                 sent[c] \in {<<"errorNoNicknameGiven">>, <<"errorNicknameInUse">>}
            /\ ret[c] = "FreshUser" => sent[c] = <<>>
       /\ (pc[c] = "nick_done" /\ pc'[c] # "nick_done") =>
            /\ pc'[c] = "idle" /\ handler'[c] = ret[c]
            /\ s' = s /\ huser'[c] = huser[c]
            /\ killed'[c] = killed[c] /\ ~killed[c]
            /\ ret[c] = "Fresh" => huser[c] = Nil
            /\ ret[c] = "FreshUser" =>
                 /\ getUser(s, NickOf(c)) = huser[c]
                 /\ s.uobj[huser[c]].sink = c]_vars

\* a NICK with a nickname of valid length, held by another connection in
\* another case, was answered by error-nickname-in-use and is about to return
\* Fresh, while a nickname is free for the retry
C15_Witness ==
  \E c \in Conns :
    /\ pc[c] = "nick_return" /\ ret[c] = "Fresh" /\ handler[c] = "Fresh"
    /\ sent[c] = <<"errorNicknameInUse">>
    /\ Len(msg[c].params[1]) <= 9
    /\ getUser(s, msg[c].params[1]) # Nil
    /\ s.uobj[getUser(s, msg[c].params[1])].nick # msg[c].params[1]
    /\ \E n \in ConnNicks : FreeValidNick(s, n)

\* USER messages with 0 to 5 middle parameters, with and without trailing
LaxMessages ==
  {Message(<<>>, cmdUser, [i \in 1..n |-> IF i = n THEN TokStar ELSE TokAl], tr) :
     n \in 0..5, tr \in {<<>>, RealName}}

\* the real-name field: the trailing parameter if it is not empty, else the
\* last middle parameter if there are more than three, else empty
RealNameField(m) ==
  IF m.trailing # <<>> THEN m.trailing
  ELSE IF Len(m.params) > 3 THEN m.params[Len(m.params)]
  ELSE <<>>

\* C16: USER acceptance.  laxTrailing(3) is the trailing parameter if it is
\* not empty, else the last middle parameter if there are more than three,
\* else empty.  A USER of a FreshUser connection is rejected exactly when it
\* has fewer than 3 middle parameters or that field is empty: then
\* error-need-more-params alone is sent, the call returns FreshUser and the
\* registry, the user-info included, is unchanged; otherwise the user-info
\* is set and the call goes on to register.  3 parameters without trailing
\* are rejected; 4 without trailing, or 3 with a trailing, are accepted.
C16_UserAcceptance ==
  [][/\ \A m \in LaxMessages \cup UserMessages : laxTrailing(m, 3) = RealNameField(m)
     /\ userRejected(Message(<<>>, cmdUser, <<TokAl, TokZero, TokStar>>, <<>>))
     /\ ~userRejected(Message(<<>>, cmdUser, <<TokAl, TokZero, TokStar, TokAl>>, <<>>))
     /\ ~userRejected(Message(<<>>, cmdUser, <<TokAl, TokZero, TokStar>>, RealName))
     /\ \A c \in Conns :
          /\ (pc[c] = "user_body" /\ pc'[c] # "user_body") =>
               /\ handler[c] = "FreshUser" /\ sent[c] = <<>>
               /\ IF Len(msg[c].params) < 3 \/ RealNameField(msg[c]) = <<>>
                  THEN /\ sent'[c] = <<"errorNeedMoreParams">>
                       /\ pc'[c] = "user_return" /\ ret'[c] = "FreshUser"
                       /\ s' = s
                  ELSE /\ sent'[c] = <<>>
                       /\ pc'[c] = "user_motd"
                       /\ s'.uobj[huser[c]].user = msg[c].params[1]
          /\ (pc[c] = "user_motd" /\ pc'[c] # "user_motd") =>
               /\ pc'[c] = "user_return" /\ ret'[c] = "Registered"
          /\ (pc[c] = "user_return" /\ pc'[c] # "user_return") =>
               /\ pc'[c] = "user_done" /\ ret'[c] = ret[c]
               /\ s' = s /\ huser'[c] = huser[c]
               /\ (ret[c] = "FreshUser") <=> (sent[c] = <<"errorNeedMoreParams">>)
          /\ (pc[c] = "user_done" /\ pc'[c] # "user_done") =>
               /\ pc'[c] = "idle" /\ handler'[c] = ret[c]
               /\ s' = s /\ huser'[c] = huser[c]]_vars

\* a USER with exactly 3 middle parameters and no trailing was answered by
\* error-need-more-params and is about to return FreshUser, the user-info
\* still unset
C16_Witness ==
  \E c \in Conns :
    /\ pc[c] = "user_return" /\ ret[c] = "FreshUser"
    /\ Len(msg[c].params) = 3 /\ msg[c].trailing = <<>>
    /\ sent[c] = <<"errorNeedMoreParams">>
    /\ s.uobj[huser[c]].user = <<>>

\* the directory holds the connection's user under its lowercase nickname,
\* with the connection as its sink
OwnsUser(c) ==
  /\ huser[c] # Nil
  /\ lowercase(NickOf(c)) \in DOMAIN s.users
  /\ s.users[lowercase(NickOf(c))] = huser[c]
  /\ s.uobj[huser[c]].sink = c

\* the users of the directory and the connections of the set correspond one
\* to one, and no connection outside the set has a user in the directory
InStep(owners) ==
  /\ \A c \in owners : OwnsUser(c)
  /\ \A c \in owners, d \in owners : c # d => huser[c] # huser[d]
  /\ \A u \in LiveUsers(s) : \E c \in owners : huser[c] = u
  /\ \A c \in Conns \ owners : huser[c] = Nil \/ huser[c] \notin LiveUsers(s)

\* C19, as stated: handler state and Registry stay in step.  Whenever no
\* connection holds the Registry, the users of the directory correspond one
\* to one to the connections whose handler is FreshUser or Registered, each
\* stored under its lowercase nickname with its connection as sink, and a
\* connection whose handler is Fresh or Closed has no user in the directory.
C19_HandlerInStep ==
  Holders = {} =>
    /\ InStep({c \in Conns : handler[c] \in {"FreshUser", "Registered"}})
    /\ \A c \in Conns : handler[c] = "Fresh" => huser[c] = Nil

\* the handler the connection has when its running call has returned, once
\* the call has sent the Registry back
HandlerAtReturn(c) ==
  IF pc[c] \in {"nick_done", "user_done"} THEN ret[c]
  ELSE IF pc[c] \in {"quit_kill", "close_done"} THEN "Closed"
  ELSE handler[c]

\* C19, amended: handler state and Registry stay in step.  Whenever no
\* connection holds the Registry, the users of the directory correspond one
\* to one to the connections whose handler is FreshUser or Registered, each
\* stored under its lowercase nickname with its connection as sink, and a
\* connection whose handler is Fresh or Closed has no user in the directory,
\* where a connection whose call has released the Registry and has not
\* returned yet counts with the handler that the call returns.
C19_HandlerInStepAtReturn ==
  Holders = {} =>
    /\ InStep({c \in Conns : HandlerAtReturn(c) \in {"FreshUser", "Registered"}})
    /\ \A c \in Conns : HandlerAtReturn(c) = "Fresh" => huser[c] = Nil

\* nobody holds the Registry; one connection has its user in the directory,
\* as Registered or still Fresh in a NICK that has reserved the nickname and
\* released; another is still FreshUser in a QUIT that has removed its user
\* and released
C19_Witness ==
  \E c \in Conns, d \in Conns :
    /\ Holders = {} /\ slot
    /\ \/ handler[c] = "Registered" /\ OwnsUser(c)
       \/ handler[c] = "Fresh" /\ pc[c] = "nick_done" /\ OwnsUser(c)
    /\ handler[d] = "FreshUser" /\ pc[d] = "quit_kill"
    /\ huser[d] \notin LiveUsers(s)

\* the connection has a call running or can still be given one
Unfinished(c) == pc[c] # "idle" \/ handler[c] # "Closed"

\* every unfinished connection waits for the Registry and the slot is empty
HandOffDeadlock ==
  /\ ~slot
  /\ \E c \in Conns : Unfinished(c)
  /\ \A c \in Conns : Unfinished(c) => Waiting(c)

\* no call waits for the Registry while it holds it, and whoever holds the
\* Registry can take its next step
NoReentrantAcquire ==
  /\ \A c \in Conns : Holding(c) => ~Waiting(c)
  /\ ~slot => \E c \in Conns : Holding(c) /\ ENABLED CallStep(c)

RECURSIVE RefParams(_)
RefParams(params) ==
  IF params = <<>> THEN <<>>
  ELSE RefParams(SubSeq(params, 1, Len(params) - 1)) \o <<" ">> \o params[Len(params)]

RefOk(m) ==
  /\ m.command # <<>>
  /\ \A i \in 1..Len(m.params) : ~ContainsSpace(m.params[i])

RefText(m) ==
  (IF m.prefix # <<>> THEN <<":">> \o m.prefix \o <<" ">> ELSE <<>>)
    \o m.command
    \o RefParams(m.params)
    \o (IF m.trailing # <<>> THEN <<" ", ":">> \o m.trailing ELSE <<>>)
    \o <<"CR", "LF">>

ScenarioD == Message(PrefixServer, CmdPrivmsg, <<ParamChan>>, TrailingHello)

ScenarioDText ==
  <<":","s","e","r","v","e","r",".","e","x","a","m","p","l","e"," ",
    "P","R","I","V","M","S","G"," ","#","c","h","a","n"," ",
    ":","h","e","l","l","o"," ","w","o","r","l","d","CR","LF">>

\* C10: Encode matches its reference definition.  For every message handed
\* to toString the result is (no output, ok = FALSE) exactly when the command
\* is empty or a middle parameter contains a space, and otherwise ok = TRUE
\* with the text of the reference definition; Scenario D yields its text.
C10_EncodeReference ==
  /\ encOut.ok <=> RefOk(encIn)
  /\ encOut.ok => encOut.text = RefText(encIn)
  /\ ~encOut.ok => encOut.text = <<>>
  /\ encIn = ScenarioD => encOut = [text |-> ScenarioDText, ok |-> TRUE]

\* toString has refused a message whose command is set, for a space in its
\* second middle parameter alone
C10_Witness ==
  /\ encIn.command # <<>>
  /\ Len(encIn.params) = 2
  /\ ~ContainsSpace(encIn.params[1])
  /\ ContainsSpace(encIn.params[2])
  /\ ~encOut.ok

====
